---- MODULE Spec2Model ----
(***************************************************************************)
(* A model of web_wrapper.py: the in-memory stores USERS, STUDENTS,        *)
(* SUBJECTS, MARKS and ATT, the browser session, and the request handlers  *)
(* that read and write them.                                               *)
(*                                                                         *)
(* Spec      every request runs to completion before the next starts.      *)
(* SpecConc  the threaded server: a delete, a write and a report are in    *)
(*           flight together and interleave at each read and write of a    *)
(*           store.                                                        *)
(***************************************************************************)
EXTENDS Integers, FiniteSets, Sequences, TLC

VARIABLES
    USERS,      \* email -> [id, email, role, password_hash]
    STUDENTS,   \* student id -> [id, user_id, roll]
    SUBJECTS,   \* subject id -> [id, code, title, credits, semester]
    MARKS,      \* <<student id, subject id>> -> marks
    ATT,        \* <<student id, subject id>> -> <<present days, total days>>
    session,    \* the browser session's user_email, or None
    nextUid,    \* the number of ids uid() has returned
    dpc,        \* the deleting request's position
    dreq,       \* the deleting request: [op, sid]
    dkeys,      \* its to_rm: the keys it has still to pop
    dst,        \* delete_student's st: the popped student's user_id
    demail,     \* delete_student's email_to_remove
    wpc,        \* the writing request's position
    wreq,       \* the writing request: [op, student_id, subject_id, marks, att]
    rpc,        \* the report request's position
    rreq,       \* the report request's sid
    rsize,      \* len(SUBJECTS) when its loop over SUBJECTS started
    rseen,      \* the subjects its loop has visited
    robs        \* what it has read so far: [found, rows, sgpa, cgpa]

stores == <<USERS, STUDENTS, SUBJECTS, MARKS, ATT>>

svars == <<USERS, STUDENTS, SUBJECTS, MARKS, ATT, session, nextUid>>

tvars == <<dpc, dreq, dkeys, dst, demail, wpc, wreq, rpc, rreq, rsize, rseen, robs>>

vars == <<svars, tvars>>

(***************************************************************************)
(* Bounds of the model.                                                    *)
(***************************************************************************)
\* uid() is called at most MaxUid times in a behaviour.
MaxUid == 5

\* At most MaxSubjects subjects are on record when a grade average is taken.
MaxSubjects == 3

(***************************************************************************)
(* Values.                                                                 *)
(***************************************************************************)
\* The value of a form field that is missing or empty, and of "no session".
None == ""

AdminEmail == "admin@local"

AdminPassword == "admin123"

\* The emails a form may carry: two that differ only in letter case, the
\* default admin's, and a missing one.
Emails == {"a@x", "A@x", AdminEmail, None}

\* The passwords a signup form and a login form may carry.
SignupPasswords == {"p", None}

LoginPasswords == {"p", AdminPassword, None}

Rolls == {"R1", None}

Salts == {"s1"}

\* The texts of the numeric form fields.
\* (code, title, credits, semester) of an add_subject form: three valid
\* ones, and one form for each way of being invalid.
SubjectForms ==
    {<<"CS101", "T", "2", "1">>, <<"cs101", "T", "1", "1">>, <<"MA1", "T", "1", "2">>}
        \cup {<<None, "T", "1", "1">>, <<"MA1", None, "1", "1">>, <<"MA1", "T", "0", "1">>,
              <<"MA1", "T", "1", "0">>, <<"MA1", "T", "abc", "1">>, <<"MA1", "T", "1", "abc">>}
        \cup {<<" ", "T", "1", "1">>, <<" MA1 ", "T", "1", "2">>}

\* (present, total) of an enter_attendance form.
AttendanceForms ==
    {<<"0", "2">>, <<"2", "2">>, <<"3", "2">>, <<"-1", "2">>, <<"0", "0">>,
     <<"abc", "2">>, <<"0", "abc">>}

MarkForms == {"0", "50", "101", "abc"}

\* str.strip() on the texts above.
Strip(s) ==
    CASE s = " " -> ""
      [] s = " MA1 " -> "MA1"
      [] OTHER -> s

\* str.lower() on the texts above.
Lower(s) ==
    CASE s = "A@x" -> "a@x"
      [] s = "CS101" -> "cs101"
      [] s = "MA1" -> "ma1"
      [] OTHER -> s

\* The numbers that int() and float() read from the texts above; a text
\* outside the domain makes them raise.
NumberOf ==
    ("-1" :> -1) @@ ("0" :> 0) @@ ("1" :> 1) @@ ("2" :> 2) @@ ("3" :> 3) @@ ("50" :> 50) @@ ("101" :> 101)

Parses(text) == text \in DOMAIN NumberOf

\* The ids a form may carry: the id of every student and subject on record,
\* and 0 for a missing one or any other text.
NoId == 0

FormIds == {NoId} \cup DOMAIN STUDENTS \cup DOMAIN SUBJECTS

\* The ids a delete's URL may carry: every id that uid() has returned, those
\* of deleted records among them, and 0 for any other text.
IssuedIds == 0..nextUid

EmptyMap == [k \in {} |-> 0]

Put_KeepFirst(d, key, value) ==
    [k \in DOMAIN d \cup {key} |-> IF k \in DOMAIN d THEN d[k] ELSE value]

\* d[key] = value, as the dict assignment does it.
Put(d, key, value) == [k \in DOMAIN d \cup {key} |-> IF k = key THEN value ELSE d[k]]

\* len(d)
Size(d) == Cardinality(DOMAIN d)

Pop_Any(d, keys) ==
    IF keys \cap DOMAIN d = {} THEN [k \in {} |-> 0] ELSE [k \in DOMAIN d \ keys |-> d[k]]

\* d.pop(k, None) for every k of keys.
Pop(d, keys) == [k \in DOMAIN d \ keys |-> d[k]]

(***************************************************************************)
(* Utilities.                                                              *)
(***************************************************************************)
\* sha256 of salt + pwd, taken to be free of collisions.
Digest(salt, pwd) == <<salt, pwd>>

hash_password(pwd, salt) == [salt |-> salt, digest |-> Digest(salt, pwd)]

verify_password(pwd, stored) == Digest(stored.salt, pwd) = stored.digest

HasAdmin_Never(users) == FALSE

HasAdmin(users) == \E e \in DOMAIN users : users[e].role = "admin"

\* The USERS that ensure_default_admin leaves.
ensure_default_admin(users, uid, salt) ==
    IF ~HasAdmin(users)
    THEN Put(users, AdminEmail,
             [id |-> uid, email |-> AdminEmail, role |-> "admin",
              password_hash |-> hash_password(AdminPassword, salt)])
    ELSE users

\* What the login_required(role) wrapper decides: "ok" lets the handler run.
login_required_AnyRole(role) ==
    IF session = None THEN "login"
    ELSE IF session \notin DOMAIN USERS THEN "expired"
    ELSE "ok"

login_required(role) ==
    IF session = None THEN "login"
    ELSE IF session \notin DOMAIN USERS THEN "expired"
    ELSE IF role # None /\ USERS[session].role # role THEN "denied"
    ELSE "ok"

\* The wrapper's own effect when it turns the request away.
Refused(role) ==
    /\ login_required(role) # "ok"
    /\ session' = IF login_required(role) = "expired" THEN None ELSE session
    /\ UNCHANGED <<stores, nextUid>>

(***************************************************************************)
(* Aggregation.  A grade average is the exact fraction <<n, d>> standing   *)
(* for n / d; Unavailable is Python's None.                                *)
(***************************************************************************)
Unavailable == << >>

RECURSIVE SumOver(_, _)
\* The sum of f[x] over the finite set S.
SumOver(f, S) ==
    IF S = {} THEN 0
    ELSE LET x == CHOOSE y \in S : TRUE IN f[x] + SumOver(f, S \ {x})

\* total_weighted / total_credits, or None when total_credits is 0.  The
\* argument weighted is ten times total_weighted: the sum of marks * credits.
Average_Zero(weighted, credits) ==
    IF credits = 0 THEN <<0, 1>> ELSE <<weighted, 10 * credits>>

Average(weighted, credits) ==
    IF credits = 0 THEN Unavailable ELSE <<weighted, 10 * credits>>

\* The subjects the loop of compute_sgpa adds up: those of the semester with
\* a mark for the student.
SgpaSubjects_AnySemester(subjects, marks, student_id, semester) ==
    {s \in DOMAIN subjects : <<student_id, s>> \in DOMAIN marks}

SgpaSubjects(subjects, marks, student_id, semester) ==
    {s \in DOMAIN subjects :
        subjects[s].semester = semester /\ <<student_id, s>> \in DOMAIN marks}

CgpaSubjects_FirstSemester(subjects, marks, student_id) ==
    {s \in DOMAIN subjects : subjects[s].semester = 1 /\ <<student_id, s>> \in DOMAIN marks}

CgpaSubjects(subjects, marks, student_id) ==
    {s \in DOMAIN subjects : <<student_id, s>> \in DOMAIN marks}

WeightedMean_Unweighted(subjects, marks, student_id, sel) ==
    Average(SumOver([s \in sel |-> marks[<<student_id, s>>]], sel),
            SumOver([s \in sel |-> subjects[s].credits], sel))

\* The loop's two sums over the subjects sel, and the final division.
WeightedMean(subjects, marks, student_id, sel) ==
    Average(SumOver([s \in sel |-> marks[<<student_id, s>>] * subjects[s].credits], sel),
            SumOver([s \in sel |-> subjects[s].credits], sel))

SgpaOf(subjects, marks, student_id, semester) ==
    WeightedMean(subjects, marks, student_id,
                 SgpaSubjects(subjects, marks, student_id, semester))

CgpaOf(subjects, marks, student_id) ==
    WeightedMean(subjects, marks, student_id, CgpaSubjects(subjects, marks, student_id))

compute_sgpa(student_id, semester) == SgpaOf(SUBJECTS, MARKS, student_id, semester)

compute_cgpa(student_id) == CgpaOf(SUBJECTS, MARKS, student_id)

\* The semesters a subject form can name.
Semesters == {1, 2}

(***************************************************************************)
(* The initial state: the module has just been imported, and no request    *)
(* is in flight.                                                           *)
(***************************************************************************)
NoRequest == [op |-> "none", sid |-> NoId]

NoWrite ==
    [op |-> "none", student_id |-> NoId, subject_id |-> NoId, marks |-> 0, att |-> <<0, 0>>]

NoObs == [found |-> FALSE, rows |-> EmptyMap, sgpa |-> EmptyMap, cgpa |-> Unavailable]

ThreadsIdle ==
    /\ dpc = "idle" /\ dreq = NoRequest /\ dkeys = {} /\ dst = NoId /\ demail = None
    /\ wpc = "idle" /\ wreq = NoWrite
    /\ rpc = "idle" /\ rreq = NoId /\ rsize = 0 /\ rseen = {} /\ robs = NoObs

Init ==
    /\ USERS = EmptyMap
    /\ STUDENTS = EmptyMap
    /\ SUBJECTS = EmptyMap
    /\ MARKS = EmptyMap
    /\ ATT = EmptyMap
    /\ session = None
    /\ nextUid = 0
    /\ ThreadsIdle

(***************************************************************************)
(* Requests.                                                               *)
(***************************************************************************)
\* GET /
index ==
    /\ IF HasAdmin(USERS)
       THEN UNCHANGED <<USERS, nextUid>>
       ELSE /\ nextUid < MaxUid
            /\ \E salt \in Salts : USERS' = ensure_default_admin(USERS, nextUid + 1, salt)
            /\ nextUid' = nextUid + 1
    /\ UNCHANGED <<STUDENTS, SUBJECTS, MARKS, ATT, session>>

SignupMissing(email, password, roll) == email = None \/ password = None \/ roll = None

SignupDuplicate_Never(email) == FALSE

SignupDuplicate(email) == email \in DOMAIN USERS

\* POST /signup
signup(email, password, roll) ==
    IF SignupMissing(email, password, roll) \/ SignupDuplicate(email)
    THEN UNCHANGED svars
    ELSE /\ nextUid + 2 <= MaxUid
         /\ \E salt \in Salts :
                USERS' = Put(USERS, email,
                             [id |-> nextUid + 1, email |-> email, role |-> "student",
                              password_hash |-> hash_password(password, salt)])
         /\ STUDENTS' = Put(STUDENTS, nextUid + 2,
                            [id |-> nextUid + 2, user_id |-> nextUid + 1, roll |-> roll])
         /\ nextUid' = nextUid + 2
         /\ session' = email
         /\ UNCHANGED <<SUBJECTS, MARKS, ATT>>

\* not user or not verify_password(password, user["password_hash"])
InvalidCredentials(users, email, password) ==
    email \notin DOMAIN users \/ ~verify_password(password, users[email].password_hash)

LoginOutcome_NamesCause(users, email, password) ==
    IF email \notin DOMAIN users
    THEN [flash |-> "No such user", category |-> "danger", redirect |-> "index",
          session_set |-> FALSE]
    ELSE IF ~verify_password(password, users[email].password_hash)
    THEN [flash |-> "Wrong password", category |-> "danger", redirect |-> "index",
          session_set |-> FALSE]
    ELSE [flash |-> "Logged in", category |-> "success", redirect |-> "index",
          session_set |-> TRUE]

\* What login answers: the flashed message and its category, the redirect,
\* and whether session["user_email"] is assigned.
LoginOutcome(users, email, password) ==
    IF InvalidCredentials(users, email, password)
    THEN [flash |-> "Invalid credentials", category |-> "danger", redirect |-> "index",
          session_set |-> FALSE]
    ELSE [flash |-> "Logged in", category |-> "success", redirect |-> "index",
          session_set |-> TRUE]

\* POST /login
login(email, password) ==
    /\ session' = IF LoginOutcome(USERS, email, password).session_set THEN email ELSE session
    /\ UNCHANGED <<stores, nextUid>>

\* GET /logout
logout ==
    /\ session' = None
    /\ UNCHANGED <<stores, nextUid>>

SubjectInvalid_NoCredits(code, title, credits, semester) ==
    code = None \/ title = None \/ semester <= 0

SubjectInvalid(code, title, credits, semester) ==
    code = None \/ title = None \/ credits <= 0 \/ semester <= 0

SubjectCodeExists_Exact(code) ==
    \E s \in DOMAIN SUBJECTS : SUBJECTS[s].code = code

SubjectCodeExists(code) ==
    \E s \in DOMAIN SUBJECTS : Lower(SUBJECTS[s].code) = Lower(code)

\* POST /add_subject
add_subject(codeForm, titleForm, creditsForm, semesterForm) ==
    \/ Refused("admin")
    \/ /\ login_required("admin") = "ok"
       /\ IF ~Parses(creditsForm) \/ ~Parses(semesterForm)
          THEN UNCHANGED svars
          ELSE LET code == Strip(codeForm)
                   title == Strip(titleForm)
                   credits == NumberOf[creditsForm]
                   semester == NumberOf[semesterForm]
               IN  IF SubjectInvalid(code, title, credits, semester) \/ SubjectCodeExists(code)
                   THEN UNCHANGED svars
                   ELSE /\ nextUid < MaxUid
                        /\ SUBJECTS' = Put(SUBJECTS, nextUid + 1,
                                           [id |-> nextUid + 1, code |-> code, title |-> title,
                                            credits |-> credits, semester |-> semester])
                        /\ nextUid' = nextUid + 1
                        /\ UNCHANGED <<USERS, STUDENTS, MARKS, ATT, session>>

BySubject_First(d, sid) == {k \in DOMAIN d : k[1] = sid}

BySubject(d, sid) == {k \in DOMAIN d : k[2] = sid}

ByStudent(d, sid) == {k \in DOMAIN d : k[1] = sid}

\* POST /delete_subject/<sid>
delete_subject(sid) ==
    \/ Refused("admin")
    \/ /\ login_required("admin") = "ok"
       /\ IF sid \in DOMAIN SUBJECTS
          THEN /\ MARKS' = Pop(MARKS, BySubject(MARKS, sid))
               /\ ATT' = Pop(ATT, BySubject(ATT, sid))
               /\ SUBJECTS' = Pop(SUBJECTS, {sid})
               /\ UNCHANGED <<USERS, STUDENTS, session, nextUid>>
          ELSE UNCHANGED svars

MarksTargetInvalid_NoStudent(student_id, subject_id) ==
    \/ student_id = NoId
    \/ subject_id = NoId
    \/ subject_id \notin DOMAIN SUBJECTS

MarksTargetInvalid(student_id, subject_id) ==
    \/ student_id = NoId
    \/ subject_id = NoId
    \/ subject_id \notin DOMAIN SUBJECTS
    \/ student_id \notin DOMAIN STUDENTS

\* POST /enter_marks
enter_marks(student_id, subject_id, marks_val) ==
    \/ Refused(None)
    \/ /\ login_required(None) = "ok"
       /\ IF ~Parses(marks_val)
          THEN UNCHANGED svars
          ELSE IF MarksTargetInvalid(student_id, subject_id)
          THEN UNCHANGED svars
          ELSE /\ MARKS' = Put(MARKS, <<student_id, subject_id>>, NumberOf[marks_val])
               /\ UNCHANGED <<USERS, STUDENTS, SUBJECTS, ATT, session, nextUid>>

AttendanceInvalid_NoUpper(pd, td) == pd < 0 \/ td <= 0

AttendanceInvalid(pd, td) == pd < 0 \/ td <= 0 \/ pd > td

AttendanceTargetInvalid_NoSubject(student_id, subject_id) ==
    student_id \notin DOMAIN STUDENTS

AttendanceTargetInvalid(student_id, subject_id) ==
    student_id \notin DOMAIN STUDENTS \/ subject_id \notin DOMAIN SUBJECTS

\* POST /enter_attendance
enter_attendance(student_id, subject_id, present, total) ==
    \/ Refused(None)
    \/ /\ login_required(None) = "ok"
       /\ IF ~Parses(present) \/ ~Parses(total)
          THEN UNCHANGED svars
          ELSE IF AttendanceInvalid(NumberOf[present], NumberOf[total])
          THEN UNCHANGED svars
          ELSE IF AttendanceTargetInvalid(student_id, subject_id)
          THEN UNCHANGED svars
          ELSE /\ ATT' = Put(ATT, <<student_id, subject_id>>, <<NumberOf[present], NumberOf[total]>>)
               /\ UNCHANGED <<USERS, STUDENTS, SUBJECTS, MARKS, session, nextUid>>

\* GET /student/<sid>: it reads the stores and changes none of them.
view_student(sid) ==
    \/ Refused(None)
    \/ /\ login_required(None) = "ok"
       /\ UNCHANGED svars

\* The emails of the users that delete_student removes for a student record:
\* the loop stops at the first user with the id, and ids are unique.
OwnerEmails_Inverted(users, st) == {e \in DOMAIN users : users[e].id # st.user_id}

OwnerEmails(users, st) == {e \in DOMAIN users : users[e].id = st.user_id}

\* POST /delete_student/<sid>
delete_student(sid) ==
    \/ Refused("admin")
    \/ /\ login_required("admin") = "ok"
       /\ IF sid \in DOMAIN STUDENTS
          THEN /\ STUDENTS' = Pop(STUDENTS, {sid})
               /\ MARKS' = Pop(MARKS, ByStudent(MARKS, sid))
               /\ ATT' = Pop(ATT, ByStudent(ATT, sid))
               /\ USERS' = Pop(USERS, OwnerEmails(USERS, STUDENTS[sid]))
               /\ UNCHANGED <<SUBJECTS, session, nextUid>>
          ELSE /\ STUDENTS' = Pop(STUDENTS, {sid})
               /\ UNCHANGED <<USERS, SUBJECTS, MARKS, ATT, session, nextUid>>

Next ==
    \/ index /\ UNCHANGED tvars
    \/ \E email \in Emails, password \in SignupPasswords, roll \in Rolls :
          signup(email, password, roll) /\ UNCHANGED tvars
    \/ \E email \in Emails, password \in LoginPasswords :
          login(email, password) /\ UNCHANGED tvars
    \/ logout /\ UNCHANGED tvars
    \/ \E f \in SubjectForms : add_subject(f[1], f[2], f[3], f[4]) /\ UNCHANGED tvars
    \/ \E sid \in IssuedIds : delete_subject(sid) /\ UNCHANGED tvars
    \/ \E st \in FormIds, sub \in FormIds, m \in MarkForms :
          enter_marks(st, sub, m) /\ UNCHANGED tvars
    \/ \E st \in FormIds, sub \in FormIds, f \in AttendanceForms :
          enter_attendance(st, sub, f[1], f[2]) /\ UNCHANGED tvars
    \/ \E sid \in IssuedIds : delete_student(sid) /\ UNCHANGED tvars
    \/ \E sid \in FormIds : view_student(sid) /\ UNCHANGED tvars

Spec == Init /\ [][Next]_vars

(***************************************************************************)
(* The threaded server.  The stores start as these requests leave them:    *)
(* index, signup of a@x, add_subject of CS101 and of MA1, and a mark and   *)
(* an attendance for each subject.  Three clients then send one request    *)
(* each: the admin a delete, the student a write and a report.             *)
(***************************************************************************)
PopUsers ==
    (AdminEmail :> [id |-> 1, email |-> AdminEmail, role |-> "admin",
                    password_hash |-> hash_password(AdminPassword, "s1")])
    @@ ("a@x" :> [id |-> 2, email |-> "a@x", role |-> "student",
                  password_hash |-> hash_password("p", "s1")])

PopStudents == (3 :> [id |-> 3, user_id |-> 2, roll |-> "R1"])

PopSubjects ==
    (4 :> [id |-> 4, code |-> "CS101", title |-> "T", credits |-> 2, semester |-> 1])
    @@ (5 :> [id |-> 5, code |-> "MA1", title |-> "T", credits |-> 1, semester |-> 2])

PopMarks == (<<3, 4>> :> 50) @@ (<<3, 5>> :> 0)

PopAtt == (<<3, 4>> :> <<2, 2>>) @@ (<<3, 5>> :> <<0, 2>>)

InitConc ==
    /\ USERS = PopUsers
    /\ STUDENTS = PopStudents
    /\ SUBJECTS = PopSubjects
    /\ MARKS = PopMarks
    /\ ATT = PopAtt
    /\ session = None
    /\ nextUid = 5
    /\ ThreadsIdle

\* The sessions of the three clients.
DeleterSession == AdminEmail

WriterSession == "a@x"

ReaderSession == "a@x"

\* login_required(role) lets the request of a client with this session in.
Admitted(email, role) ==
    email \in DOMAIN USERS /\ (role # None => USERS[email].role = role)

dvars == <<dpc, dreq, dkeys, dst, demail>>

wvars == <<wpc, wreq>>

rvars == <<rpc, rreq, rsize, rseen, robs>>

\* ---- delete_subject, a step for each read and write of a store ----
ds_start(sid) ==
    /\ dpc = "idle" /\ Admitted(DeleterSession, "admin")
    /\ dreq' = [op |-> "delete_subject", sid |-> sid]
    /\ dpc' = "ds_check"
    /\ UNCHANGED <<svars, dkeys, dst, demail, wvars, rvars>>

\* if sid in SUBJECTS
ds_check ==
    /\ dpc = "ds_check"
    /\ dpc' = IF dreq.sid \in DOMAIN SUBJECTS THEN "ds_marks_keys" ELSE "done"
    /\ UNCHANGED <<svars, dreq, dkeys, dst, demail, wvars, rvars>>

\* to_rm = [k for k in list(MARKS.keys()) if k[1] == sid]
ds_marks_keys ==
    /\ dpc = "ds_marks_keys"
    /\ dkeys' = BySubject(MARKS, dreq.sid)
    /\ dpc' = "ds_marks_pop"
    /\ UNCHANGED <<svars, dreq, dst, demail, wvars, rvars>>

\* for k in to_rm: MARKS.pop(k, None)
ds_marks_pop ==
    /\ dpc = "ds_marks_pop"
    /\ IF dkeys = {}
       THEN dpc' = "ds_att_keys" /\ UNCHANGED <<MARKS, dkeys>>
       ELSE \E k \in dkeys :
               /\ MARKS' = Pop(MARKS, {k})
               /\ dkeys' = dkeys \ {k}
               /\ UNCHANGED dpc
    /\ UNCHANGED <<USERS, STUDENTS, SUBJECTS, ATT, session, nextUid, dreq, dst, demail, wvars, rvars>>

\* to_rm = [k for k in list(ATT.keys()) if k[1] == sid]
ds_att_keys ==
    /\ dpc = "ds_att_keys"
    /\ dkeys' = BySubject(ATT, dreq.sid)
    /\ dpc' = "ds_att_pop"
    /\ UNCHANGED <<svars, dreq, dst, demail, wvars, rvars>>

\* for k in to_rm: ATT.pop(k, None)
ds_att_pop ==
    /\ dpc = "ds_att_pop"
    /\ IF dkeys = {}
       THEN dpc' = "ds_subject_pop" /\ UNCHANGED <<ATT, dkeys>>
       ELSE \E k \in dkeys :
               /\ ATT' = Pop(ATT, {k})
               /\ dkeys' = dkeys \ {k}
               /\ UNCHANGED dpc
    /\ UNCHANGED <<USERS, STUDENTS, SUBJECTS, MARKS, session, nextUid, dreq, dst, demail, wvars, rvars>>

\* SUBJECTS.pop(sid, None)
ds_subject_pop ==
    /\ dpc = "ds_subject_pop"
    /\ SUBJECTS' = Pop(SUBJECTS, {dreq.sid})
    /\ dpc' = "done"
    /\ UNCHANGED <<USERS, STUDENTS, MARKS, ATT, session, nextUid, dreq, dkeys, dst, demail, wvars, rvars>>

\* ---- delete_student ----
dst_start(sid) ==
    /\ dpc = "idle" /\ Admitted(DeleterSession, "admin")
    /\ dreq' = [op |-> "delete_student", sid |-> sid]
    /\ dpc' = "dst_pop"
    /\ UNCHANGED <<svars, dkeys, dst, demail, wvars, rvars>>

\* st = STUDENTS.pop(sid, None); if st
dst_pop ==
    /\ dpc = "dst_pop"
    /\ IF dreq.sid \in DOMAIN STUDENTS
       THEN /\ STUDENTS' = Pop(STUDENTS, {dreq.sid})
            /\ dst' = STUDENTS[dreq.sid].user_id
            /\ dpc' = "dst_marks_keys"
       ELSE dpc' = "done" /\ UNCHANGED <<STUDENTS, dst>>
    /\ UNCHANGED <<USERS, SUBJECTS, MARKS, ATT, session, nextUid, dreq, dkeys, demail, wvars, rvars>>

\* for k in list(MARKS.keys()): the keys with k[0] == sid are the ones popped
dst_marks_keys ==
    /\ dpc = "dst_marks_keys"
    /\ dkeys' = ByStudent(MARKS, dreq.sid)
    /\ dpc' = "dst_marks_pop"
    /\ UNCHANGED <<svars, dreq, dst, demail, wvars, rvars>>

\* if k[0] == sid: MARKS.pop(k, None)
dst_marks_pop ==
    /\ dpc = "dst_marks_pop"
    /\ IF dkeys = {}
       THEN dpc' = "dst_att_keys" /\ UNCHANGED <<MARKS, dkeys>>
       ELSE \E k \in dkeys :
               /\ MARKS' = Pop(MARKS, {k})
               /\ dkeys' = dkeys \ {k}
               /\ UNCHANGED dpc
    /\ UNCHANGED <<USERS, STUDENTS, SUBJECTS, ATT, session, nextUid, dreq, dst, demail, wvars, rvars>>

\* for k in list(ATT.keys())
dst_att_keys ==
    /\ dpc = "dst_att_keys"
    /\ dkeys' = ByStudent(ATT, dreq.sid)
    /\ dpc' = "dst_att_pop"
    /\ UNCHANGED <<svars, dreq, dst, demail, wvars, rvars>>

\* if k[0] == sid: ATT.pop(k, None)
dst_att_pop ==
    /\ dpc = "dst_att_pop"
    /\ IF dkeys = {}
       THEN dpc' = "dst_users_scan" /\ UNCHANGED <<ATT, dkeys>>
       ELSE \E k \in dkeys :
               /\ ATT' = Pop(ATT, {k})
               /\ dkeys' = dkeys \ {k}
               /\ UNCHANGED dpc
    /\ UNCHANGED <<USERS, STUDENTS, SUBJECTS, MARKS, session, nextUid, dreq, dst, demail, wvars, rvars>>

\* for email, u in list(USERS.items()): if u["id"] == user_id
dst_users_scan ==
    /\ dpc = "dst_users_scan"
    /\ LET found == {e \in DOMAIN USERS : USERS[e].id = dst}
       IN  demail' = IF found = {} THEN None ELSE CHOOSE e \in found : TRUE
    /\ dpc' = "dst_users_pop"
    /\ UNCHANGED <<svars, dreq, dkeys, dst, wvars, rvars>>

\* if email_to_remove: USERS.pop(email_to_remove, None)
dst_users_pop ==
    /\ dpc = "dst_users_pop"
    /\ USERS' = IF demail = None THEN USERS ELSE Pop(USERS, {demail})
    /\ dpc' = "done"
    /\ UNCHANGED <<STUDENTS, SUBJECTS, MARKS, ATT, session, nextUid, dreq, dkeys, dst, demail, wvars, rvars>>

\* ---- enter_marks ----
\* The form is read and float() applied before any store is touched.
em_start(student_id, subject_id, marks_val) ==
    /\ wpc = "idle" /\ Admitted(WriterSession, None)
    /\ IF ~Parses(marks_val) \/ student_id = NoId \/ subject_id = NoId
       THEN /\ wpc' = "done"
            /\ wreq' = [NoWrite EXCEPT !.op = "enter_marks", !.student_id = student_id,
                                       !.subject_id = subject_id]
       ELSE /\ wpc' = "em_subject"
            /\ wreq' = [NoWrite EXCEPT !.op = "enter_marks", !.student_id = student_id,
                                       !.subject_id = subject_id,
                                       !.marks = NumberOf[marks_val]]
    /\ UNCHANGED <<svars, dvars, rvars>>

\* subject_id not in SUBJECTS
em_subject ==
    /\ wpc = "em_subject"
    /\ wpc' = IF wreq.subject_id \notin DOMAIN SUBJECTS THEN "done" ELSE "em_student"
    /\ UNCHANGED <<svars, wreq, dvars, rvars>>

\* student_id not in STUDENTS
em_student ==
    /\ wpc = "em_student"
    /\ wpc' = IF wreq.student_id \notin DOMAIN STUDENTS THEN "done" ELSE "em_write"
    /\ UNCHANGED <<svars, wreq, dvars, rvars>>

\* MARKS[key] = marks_f, on either branch of "if key in MARKS"
em_write ==
    /\ wpc = "em_write"
    /\ MARKS' = Put(MARKS, <<wreq.student_id, wreq.subject_id>>, wreq.marks)
    /\ wpc' = "done"
    /\ UNCHANGED <<USERS, STUDENTS, SUBJECTS, ATT, session, nextUid, wreq, dvars, rvars>>

\* ---- enter_attendance ----
\* The form is read, int() applied and the numbers checked before any store
\* is touched.
ea_start(student_id, subject_id, present, total) ==
    /\ wpc = "idle" /\ Admitted(WriterSession, None)
    /\ IF ~Parses(present) \/ ~Parses(total)
       THEN /\ wpc' = "done"
            /\ wreq' = [NoWrite EXCEPT !.op = "enter_attendance", !.student_id = student_id,
                                       !.subject_id = subject_id]
       ELSE /\ wpc' = IF AttendanceInvalid(NumberOf[present], NumberOf[total])
                      THEN "done" ELSE "ea_student"
            /\ wreq' = [NoWrite EXCEPT !.op = "enter_attendance", !.student_id = student_id,
                                       !.subject_id = subject_id,
                                       !.att = <<NumberOf[present], NumberOf[total]>>]
    /\ UNCHANGED <<svars, dvars, rvars>>

\* student_id not in STUDENTS
ea_student ==
    /\ wpc = "ea_student"
    /\ wpc' = IF wreq.student_id \notin DOMAIN STUDENTS THEN "done" ELSE "ea_subject"
    /\ UNCHANGED <<svars, wreq, dvars, rvars>>

\* subject_id not in SUBJECTS
ea_subject ==
    /\ wpc = "ea_subject"
    /\ wpc' = IF wreq.subject_id \notin DOMAIN SUBJECTS THEN "done" ELSE "ea_write"
    /\ UNCHANGED <<svars, wreq, dvars, rvars>>

\* ATT[key] = (pd, td)
ea_write ==
    /\ wpc = "ea_write"
    /\ ATT' = Put(ATT, <<wreq.student_id, wreq.subject_id>>, wreq.att)
    /\ wpc' = "done"
    /\ UNCHANGED <<USERS, STUDENTS, SUBJECTS, MARKS, session, nextUid, wreq, dvars, rvars>>

\* ---- view_student ----
vs_start(sid) ==
    /\ rpc = "idle" /\ Admitted(ReaderSession, None)
    /\ rreq' = sid
    /\ rpc' = "vs_get"
    /\ UNCHANGED <<svars, dvars, wvars, rsize, rseen, robs>>

\* st = STUDENTS.get(sid); the loop over SUBJECTS.values() starts
vs_get ==
    /\ rpc = "vs_get"
    /\ IF rreq \in DOMAIN STUDENTS
       THEN /\ robs' = [robs EXCEPT !.found = TRUE]
            /\ rsize' = Size(SUBJECTS)
            /\ rpc' = "vs_next"
       ELSE rpc' = "done" /\ UNCHANGED <<robs, rsize>>
    /\ UNCHANGED <<svars, dvars, wvars, rreq, rseen>>

\* The next subject of the loop, in the order of insertion, which is the
\* order of the ids; the iterator raises when the dict has changed size.
vs_next ==
    /\ rpc = "vs_next"
    /\ IF Size(SUBJECTS) # rsize
       THEN rpc' = "error" /\ UNCHANGED <<rseen, robs>>
       ELSE IF DOMAIN SUBJECTS \ rseen = {}
       THEN rpc' = "vs_sgpa" /\ UNCHANGED <<rseen, robs>>
       ELSE LET s == CHOOSE x \in DOMAIN SUBJECTS \ rseen :
                        \A y \in DOMAIN SUBJECTS \ rseen : x <= y
            IN  /\ rseen' = rseen \cup {s}
                /\ robs' = [robs EXCEPT !.rows =
                               Put(robs.rows, s, [semester |-> SUBJECTS[s].semester,
                                                  marks |-> {}, att |-> {}])]
                /\ rpc' = "vs_marks"
    /\ UNCHANGED <<svars, dvars, wvars, rreq, rsize>>

\* The subject the loop is at.
Current == CHOOSE x \in rseen : \A y \in rseen : y <= x

\* "marks": MARKS.get((sid, s["id"]))
vs_marks ==
    /\ rpc = "vs_marks"
    /\ LET key == <<rreq, Current>>
       IN  robs' = [robs EXCEPT !.rows[Current].marks =
                       IF key \in DOMAIN MARKS THEN {MARKS[key]} ELSE {}]
    /\ rpc' = "vs_att_in"
    /\ UNCHANGED <<svars, dvars, wvars, rreq, rsize, rseen>>

\* "att": None if (sid, s["id"]) not in ATT
vs_att_in ==
    /\ rpc = "vs_att_in"
    /\ rpc' = IF <<rreq, Current>> \in DOMAIN ATT THEN "vs_att_read" ELSE "vs_next"
    /\ UNCHANGED <<svars, dvars, wvars, rreq, rsize, rseen, robs>>

\* else the text of ATT[(sid, s["id"])]; a key that is gone by now raises
vs_att_read ==
    /\ rpc = "vs_att_read"
    /\ LET key == <<rreq, Current>>
       IN  IF key \in DOMAIN ATT
           THEN /\ robs' = [robs EXCEPT !.rows[Current].att = {ATT[key]}]
                /\ rpc' = "vs_next"
           ELSE rpc' = "error" /\ UNCHANGED robs
    /\ UNCHANGED <<svars, dvars, wvars, rreq, rsize, rseen>>

\* for sem in sems: sg = compute_sgpa(sid, sem), one call in one step
vs_sgpa ==
    /\ rpc = "vs_sgpa"
    /\ LET todo == {s \in DOMAIN robs.rows : robs.rows[s].semester \notin DOMAIN robs.sgpa}
       IN  IF todo = {}
           THEN rpc' = "vs_cgpa" /\ UNCHANGED robs
           ELSE LET s == CHOOSE x \in todo : \A y \in todo : x <= y
                    sem == robs.rows[s].semester
                IN  /\ robs' = [robs EXCEPT !.sgpa = Put(robs.sgpa, sem, compute_sgpa(rreq, sem))]
                    /\ UNCHANGED rpc
    /\ UNCHANGED <<svars, dvars, wvars, rreq, rsize, rseen>>

\* cg = compute_cgpa(sid), and the page is rendered
vs_cgpa ==
    /\ rpc = "vs_cgpa"
    /\ robs' = [robs EXCEPT !.cgpa = compute_cgpa(rreq)]
    /\ rpc' = "done"
    /\ UNCHANGED <<svars, dvars, wvars, rreq, rsize, rseen>>

NextConc ==
    \/ \E sid \in FormIds : ds_start(sid)
    \/ ds_check \/ ds_marks_keys \/ ds_marks_pop \/ ds_att_keys \/ ds_att_pop \/ ds_subject_pop
    \/ \E sid \in FormIds : dst_start(sid)
    \/ dst_pop \/ dst_marks_keys \/ dst_marks_pop \/ dst_att_keys \/ dst_att_pop
    \/ dst_users_scan \/ dst_users_pop
    \/ \E st \in FormIds, sub \in FormIds, m \in MarkForms : em_start(st, sub, m)
    \/ em_subject \/ em_student \/ em_write
    \/ \E st \in FormIds, sub \in FormIds, f \in AttendanceForms : ea_start(st, sub, f[1], f[2])
    \/ ea_subject \/ ea_student \/ ea_write
    \/ \E sid \in FormIds : vs_start(sid)
    \/ vs_get \/ vs_next \/ vs_marks \/ vs_att_in \/ vs_att_read \/ vs_sgpa \/ vs_cgpa

SpecConc == InitConc /\ [][NextConc]_vars

(***************************************************************************)
(* The grade arithmetic.  compute_sgpa and compute_cgpa are functions of   *)
(* SUBJECTS and MARKS alone.  The stores start with one student and any    *)
(* choice of subjects, each with or without a mark of the student, and the *)
(* student's report is requested: view_student calls both functions.       *)
(***************************************************************************)
\* Ids 4 .. 3 + MaxSubjects are those of the subjects that were added.
GradeSubjectIds == 4..(3 + MaxSubjects)

GradeCodes == <<"CS101", "MA1", "PH1", "EE1", "ME1">>

GradeCredits == {2, 4}

GradeMarks == {0, 50, 80}

\* The record that add_subject stores.
GradeSubject(s, credits, semester) ==
    [id |-> s, code |-> GradeCodes[s - 3], title |-> "T", credits |-> credits,
     semester |-> semester]

InitGrades ==
    /\ USERS = PopUsers
    /\ STUDENTS = PopStudents
    /\ \E ids \in SUBSET GradeSubjectIds :
          \E cr \in [ids -> GradeCredits], sm \in [ids -> Semesters], marked \in SUBSET ids :
             \E mk \in [marked -> GradeMarks] :
                /\ SUBJECTS = [s \in ids |-> GradeSubject(s, cr[s], sm[s])]
                /\ MARKS = [k \in {<<3, s>> : s \in marked} |-> mk[k[2]]]
    /\ ATT = [k \in DOMAIN MARKS |-> <<2, 2>>]
    /\ session = None
    /\ nextUid = 3 + MaxSubjects
    /\ ThreadsIdle

NextGrades ==
    \/ \E sid \in FormIds : vs_start(sid)
    \/ vs_get \/ vs_next \/ vs_marks \/ vs_att_in \/ vs_att_read \/ vs_sgpa \/ vs_cgpa

SpecGrades == InitGrades /\ [][NextGrades]_vars

(***************************************************************************)
(* Properties of Spec.                                                     *)
(***************************************************************************)
RECURSIVE TotalUpTo(_, _)
\* The sum of f over the ids 1..n of its domain.
TotalUpTo(f, n) ==
    IF n = 0 THEN 0
    ELSE (IF n \in DOMAIN f THEN f[n] ELSE 0) + TotalUpTo(f, n - 1)

\* Two grade averages are the same number, or are both unavailable.
SameValue(a, b) ==
    IF a = Unavailable \/ b = Unavailable THEN a = b ELSE a[1] * b[2] = b[1] * a[2]

\* C1: between requests, every key of MARKS and of ATT names a student in
\* STUDENTS and a subject in SUBJECTS.
ReferentialIntegrity ==
    \A k \in DOMAIN MARKS \cup DOMAIN ATT :
        k[1] \in DOMAIN STUDENTS /\ k[2] \in DOMAIN SUBJECTS

\* A subject was deleted, and a subject added after that has a mark and an
\* attendance row of the student.
IntegrityAfterSubjectDeleted ==
    /\ HasAdmin(USERS) /\ Size(USERS) = 2 /\ Size(STUDENTS) = 1
    /\ nextUid = 5 /\ DOMAIN SUBJECTS = {5}
    /\ \E st \in DOMAIN STUDENTS : <<st, 5>> \in DOMAIN MARKS \cap DOMAIN ATT

\* C2: every value stored in MARKS lies in [0,100].
MarksInRange == \A k \in DOMAIN MARKS : 0 <= MARKS[k] /\ MARKS[k] <= 100

\* C3: no two users have emails that are equal after case folding.
EmailsUniqueIgnoringCase ==
    \A e1, e2 \in DOMAIN USERS : Lower(e1) = Lower(e2) => e1 = e2

\* C4: each student's user_id is the id of exactly one user, a student, and
\* each user with role student is owned by exactly one student.
StudentUserPairing ==
    /\ \A s \in DOMAIN STUDENTS :
          LET owners == {e \in DOMAIN USERS : USERS[e].id = STUDENTS[s].user_id}
          IN  Cardinality(owners) = 1 /\ \A e \in owners : USERS[e].role = "student"
    /\ \A e \in DOMAIN USERS :
          USERS[e].role = "student" =>
              Cardinality({s \in DOMAIN STUDENTS : STUDENTS[s].user_id = USERS[e].id}) = 1

\* C5: delete_student(sid) on an existing student removes sid from STUDENTS,
\* exactly the rows of sid from MARKS and ATT, and exactly the one user whose
\* id is the student's user_id; SUBJECTS and the admins stay as they are.
DeleteStudentEffect ==
    [][\A sid \in DOMAIN STUDENTS :
          (login_required("admin") = "ok" /\ delete_student(sid)) =>
              /\ DOMAIN STUDENTS' = DOMAIN STUDENTS \ {sid}
              /\ \A s \in DOMAIN STUDENTS' : STUDENTS'[s] = STUDENTS[s]
              /\ DOMAIN MARKS' = {k \in DOMAIN MARKS : k[1] # sid}
              /\ \A k \in DOMAIN MARKS' : MARKS'[k] = MARKS[k]
              /\ DOMAIN ATT' = {k \in DOMAIN ATT : k[1] # sid}
              /\ \A k \in DOMAIN ATT' : ATT'[k] = ATT[k]
              /\ \E e \in DOMAIN USERS :
                    /\ USERS[e].id = STUDENTS[sid].user_id
                    /\ DOMAIN USERS' = DOMAIN USERS \ {e}
              /\ \A e \in DOMAIN USERS' : USERS'[e] = USERS[e]
              /\ \A e \in DOMAIN USERS : USERS[e].role = "admin" => e \in DOMAIN USERS'
              /\ SUBJECTS' = SUBJECTS]_vars

\* C6: delete_subject(sid) on an existing subject removes sid from SUBJECTS
\* and exactly the rows of sid from MARKS and ATT; STUDENTS and USERS stay as
\* they are.
DeleteSubjectEffect ==
    [][\A sid \in DOMAIN SUBJECTS :
          (login_required("admin") = "ok" /\ delete_subject(sid)) =>
              /\ DOMAIN SUBJECTS' = DOMAIN SUBJECTS \ {sid}
              /\ \A s \in DOMAIN SUBJECTS' : SUBJECTS'[s] = SUBJECTS[s]
              /\ DOMAIN MARKS' = {k \in DOMAIN MARKS : k[2] # sid}
              /\ \A k \in DOMAIN MARKS' : MARKS'[k] = MARKS[k]
              /\ DOMAIN ATT' = {k \in DOMAIN ATT : k[2] # sid}
              /\ \A k \in DOMAIN ATT' : ATT'[k] = ATT[k]
              /\ STUDENTS' = STUDENTS
              /\ USERS' = USERS]_vars

\* The later one of two subjects was deleted, and the student's mark and
\* attendance for the earlier one are still there.
SubjectDeletedOtherRowsKept ==
    /\ HasAdmin(USERS) /\ Size(USERS) = 2 /\ Size(STUDENTS) = 1
    /\ nextUid = 5 /\ DOMAIN SUBJECTS = {4}
    /\ \E st \in DOMAIN STUDENTS : <<st, 4>> \in DOMAIN MARKS \cap DOMAIN ATT

\* C7: a step that has an admin before it has one after it, and index always
\* leaves one.
AdminPersists ==
    [][/\ HasAdmin(USERS) => HasAdmin(USERS')
       /\ index => HasAdmin(USERS')]_vars

\* The admin is there after a student signed up and was deleted again.
AdminAfterStudentDeleted ==
    /\ HasAdmin(USERS) /\ Size(USERS) = 1 /\ STUDENTS = EmptyMap /\ nextUid = 3

\* C10: compute_sgpa is unavailable exactly when no subject of the semester
\* has a mark for the student, and marks that are all 0 give the value 0.
SgpaUnavailableIffNoMarks ==
    \A st \in 0..MaxUid, sem \in Semesters :
        LET marked == {s \in DOMAIN SUBJECTS :
                          SUBJECTS[s].semester = sem /\ <<st, s>> \in DOMAIN MARKS}
        IN  /\ compute_sgpa(st, sem) = Unavailable <=> marked = {}
            /\ (marked # {} /\ \A s \in marked : MARKS[<<st, s>>] = 0) =>
                   /\ Len(compute_sgpa(st, sem)) = 2
                   /\ compute_sgpa(st, sem)[1] = 0

\* A student whose only mark of one semester is 0, and who has no mark in
\* another semester that has a subject.
SgpaZeroAndUnavailable ==
    \E st \in DOMAIN STUDENTS, s1, s2 \in DOMAIN SUBJECTS :
        /\ SUBJECTS[s1].semester # SUBJECTS[s2].semester
        /\ <<st, s1>> \in DOMAIN MARKS /\ MARKS[<<st, s1>>] = 0
        /\ <<st, s2>> \notin DOMAIN MARKS
        /\ compute_sgpa(st, SUBJECTS[s1].semester) # Unavailable
        /\ compute_sgpa(st, SUBJECTS[s2].semester) = Unavailable

\* C13: a login with an email that differs from a registered email only in
\* letter case, and with that user's password, is accepted and names that
\* user.
LoginFoldsCase ==
    \A e \in DOMAIN USERS, email \in Emails, password \in LoginPasswords :
        (Lower(email) = Lower(e) /\ verify_password(password, USERS[e].password_hash)) =>
            /\ ~InvalidCredentials(USERS, email, password)
            /\ USERS[email].id = USERS[e].id

\* C14: every entry of ATT has 0 <= present <= total and total > 0, and no
\* step that changes ATT is an enter_attendance, for a student and a subject
\* on record or for none, whose numbers do not read as integers with
\* total > 0, present >= 0 and present <= total.
AttendanceStoredOnlyWhenValid ==
    /\ [](\A k \in DOMAIN ATT : 0 <= ATT[k][1] /\ ATT[k][1] <= ATT[k][2] /\ ATT[k][2] > 0)
    /\ [][ATT' # ATT =>
             \A f \in AttendanceForms :
                ~(/\ Parses(f[1]) /\ Parses(f[2])
                  /\ NumberOf[f[2]] > 0 /\ NumberOf[f[1]] >= 0
                  /\ NumberOf[f[1]] <= NumberOf[f[2]])
                    => \A st \in {NoId} \cup DOMAIN STUDENTS, sub \in {NoId} \cup DOMAIN SUBJECTS :
                          ~enter_attendance(st, sub, f[1], f[2])]_vars

\* A student has full attendance in one subject and none in another, and is
\* logged in: the forms with present > total and with total = 0 are the
\* ones turned down here.
AttendanceAtBothEnds ==
    /\ login_required(None) = "ok"
    /\ \E st \in DOMAIN STUDENTS, a, b \in DOMAIN SUBJECTS :
          /\ <<st, a>> \in DOMAIN ATT /\ ATT[<<st, a>>] = <<2, 2>>
          /\ <<st, b>> \in DOMAIN ATT /\ ATT[<<st, b>>] = <<0, 2>>

\* C15: no two subjects have codes that are equal after lower-casing, and no
\* step that changes SUBJECTS is an add_subject with a code that equals an
\* existing one after lower-casing.
SubjectCodesUniqueIgnoringCase ==
    /\ [](\A a, b \in DOMAIN SUBJECTS :
             Lower(SUBJECTS[a].code) = Lower(SUBJECTS[b].code) => a = b)
    /\ [][SUBJECTS' # SUBJECTS =>
             \A f \in SubjectForms :
                (\E s \in DOMAIN SUBJECTS : Lower(SUBJECTS[s].code) = Lower(Strip(f[1])))
                    => ~add_subject(f[1], f[2], f[3], f[4])]_vars

\* The admin is logged in and CS101 is on record beside another subject:
\* the form with code cs101 is the one turned down here.
SubjectCodeOnRecordInOtherCase ==
    /\ login_required("admin") = "ok"
    /\ Size(SUBJECTS) = 2
    /\ \E s \in DOMAIN SUBJECTS : SUBJECTS[s].code = "CS101"
    /\ SubjectCodeExists("cs101")

\* C16: a valid write names a student and a subject on record and carries a
\* number.  The dict assignment of a valid enter_marks or enter_attendance
\* leaves its value under the key, keeps the keys as they are when the key
\* is an existing one, and keeps the value of every other key; and a step of
\* a valid enter_marks or enter_attendance that changes the store is that
\* assignment.
UpdateInPlace ==
    /\ [](\A st \in DOMAIN STUDENTS, sub \in DOMAIN SUBJECTS :
             /\ \A m \in MarkForms :
                   Parses(m) =>
                       LET after == Put(MARKS, <<st, sub>>, NumberOf[m])
                       IN  /\ after[<<st, sub>>] = NumberOf[m]
                           /\ <<st, sub>> \in DOMAIN MARKS =>
                                  DOMAIN after = DOMAIN MARKS
                           /\ \A k \in DOMAIN MARKS \ {<<st, sub>>} : after[k] = MARKS[k]
             /\ \A f \in AttendanceForms :
                   (Parses(f[1]) /\ Parses(f[2])) =>
                       LET after == Put(ATT, <<st, sub>>, <<NumberOf[f[1]], NumberOf[f[2]]>>)
                       IN  /\ after[<<st, sub>>] = <<NumberOf[f[1]], NumberOf[f[2]]>>
                           /\ <<st, sub>> \in DOMAIN ATT => DOMAIN after = DOMAIN ATT
                           /\ \A k \in DOMAIN ATT \ {<<st, sub>>} : after[k] = ATT[k])
    /\ [][/\ MARKS' # MARKS =>
                \A st \in DOMAIN STUDENTS, sub \in DOMAIN SUBJECTS, m \in MarkForms :
                    (Parses(m) /\ enter_marks(st, sub, m)) =>
                        /\ MARKS'[<<st, sub>>] = NumberOf[m]
                        /\ <<st, sub>> \in DOMAIN MARKS =>
                               /\ DOMAIN MARKS' = DOMAIN MARKS
                               /\ Size(MARKS') = Size(MARKS)
                        /\ \A k \in DOMAIN MARKS \ {<<st, sub>>} :
                               k \in DOMAIN MARKS' /\ MARKS'[k] = MARKS[k]
          /\ ATT' # ATT =>
                \A st \in DOMAIN STUDENTS, sub \in DOMAIN SUBJECTS, f \in AttendanceForms :
                    (Parses(f[1]) /\ Parses(f[2]) /\ enter_attendance(st, sub, f[1], f[2])) =>
                        /\ ATT'[<<st, sub>>] = <<NumberOf[f[1]], NumberOf[f[2]]>>
                        /\ <<st, sub>> \in DOMAIN ATT =>
                               /\ DOMAIN ATT' = DOMAIN ATT
                               /\ Size(ATT') = Size(ATT)
                        /\ \A k \in DOMAIN ATT \ {<<st, sub>>} :
                               k \in DOMAIN ATT' /\ ATT'[k] = ATT[k]]_vars

\* A student has a mark of 0 in one subject and of 50 in another, and an
\* attendance in both: a write to either key finds it there, beside another.
RowsOfTwoSubjectsOnRecord ==
    /\ login_required(None) = "ok"
    /\ Size(MARKS) = 2 /\ Size(ATT) = 2
    /\ \E a, b \in DOMAIN MARKS : MARKS[a] = 0 /\ MARKS[b] = 50

\* C17: a signup step that changes USERS or STUDENTS has an email, a password
\* and a roll, and an email that is not a key of USERS; it adds one user,
\* under that email and with role student, and one student whose user_id is
\* that user's id, and changes no other user or student.
SignupAllOrNothing ==
    [][(USERS' # USERS \/ STUDENTS' # STUDENTS) =>
          \A email \in Emails, password \in SignupPasswords, roll \in Rolls :
              signup(email, password, roll) =>
                  /\ email # None /\ password # None /\ roll # None
                  /\ email \notin DOMAIN USERS
                  /\ DOMAIN USERS' = DOMAIN USERS \cup {email}
                  /\ Size(USERS') = Size(USERS) + 1
                  /\ USERS'[email].role = "student"
                  /\ \A e \in DOMAIN USERS : USERS'[e] = USERS[e]
                  /\ Size(STUDENTS') = Size(STUDENTS) + 1
                  /\ \E sid \in DOMAIN STUDENTS' \ DOMAIN STUDENTS :
                        /\ DOMAIN STUDENTS' = DOMAIN STUDENTS \cup {sid}
                        /\ STUDENTS'[sid].user_id = USERS'[email].id
                  /\ \A sid \in DOMAIN STUDENTS : STUDENTS'[sid] = STUDENTS[sid]]_vars

\* Two students have signed up, each with a user of its own.
TwoStudentsSignedUp ==
    /\ Size(STUDENTS) = 2 /\ Size(USERS) = 2 /\ nextUid = 4
    /\ \A sid \in DOMAIN STUDENTS :
          \E e \in DOMAIN USERS :
             USERS[e].id = STUDENTS[sid].user_id /\ USERS[e].role = "student"

\* C18: no step that changes a store is a delete_subject with the id of no
\* subject or a delete_student with the id of no student.
DeleteOfAbsentIsNoOp ==
    [][stores' # stores =>
          \A sid \in IssuedIds :
              /\ sid \notin DOMAIN SUBJECTS => ~delete_subject(sid)
              /\ sid \notin DOMAIN STUDENTS => ~delete_student(sid)]_vars

\* The admin is logged in, and a subject and a student that were on record
\* are deleted: their ids are the ones a second delete carries.
SubjectAndStudentDeleted ==
    /\ login_required("admin") = "ok"
    /\ nextUid = 4 /\ Size(USERS) = 1
    /\ STUDENTS = EmptyMap /\ SUBJECTS = EmptyMap

PasswordDecidesLogin ==
    [][/\ USERS' # USERS =>
             \A email \in Emails, password \in SignupPasswords, roll \in Rolls :
                 signup(email, password, roll) =>
                     \A q \in LoginPasswords :
                         InvalidCredentials(USERS', email, q) <=> q # password
       /\ session' # session =>
             \A email \in Emails, q \in LoginPasswords :
                 login(email, q) =>
                     ~InvalidCredentials(USERS, email, q) /\ session' = email
       /\ USERS' # USERS =>
             \A sid \in DOMAIN STUDENTS \cap DOMAIN STUDENTS', e \in DOMAIN USERS :
                 USERS[e].id = STUDENTS[sid].user_id =>
                     \A q \in LoginPasswords :
                         InvalidCredentials(USERS', e, q) <=> InvalidCredentials(USERS, e, q)]_vars

\* C21: a login for an email that is no key of USERS and a login for a key
\* of USERS with a password that does not verify get the same answer, which
\* assigns no session; and no step that changes a store is a login.
FailedLoginsAlike ==
    /\ [](\A e1, e2 \in Emails, p1, p2 \in LoginPasswords :
             (/\ e1 \notin DOMAIN USERS
              /\ e2 \in DOMAIN USERS
              /\ ~verify_password(p2, USERS[e2].password_hash)) =>
                 /\ LoginOutcome(USERS, e1, p1) = LoginOutcome(USERS, e2, p2)
                 /\ ~LoginOutcome(USERS, e1, p1).session_set)
    /\ [][stores' # stores =>
             \A email \in Emails, password \in LoginPasswords : ~login(email, password)]_vars

\* Nobody is logged in, a@x and the admin are registered and A@x is not: a
\* login as A@x and a login as a@x with the admin's password both fail here.
RegisteredAndUnregisteredEmail ==
    /\ session = None
    /\ HasAdmin(USERS)
    /\ "a@x" \in DOMAIN USERS /\ "A@x" \notin DOMAIN USERS
    /\ ~verify_password(AdminPassword, USERS["a@x"].password_hash)

\* C22: for a student whose only subject with a mark is s, with mark m,
\* compute_sgpa of the semester of s and compute_cgpa are both m / 10; and
\* after a delete_subject of s both are unavailable.
SingleMarkThenSubjectDeleted ==
    /\ [](\A st \in DOMAIN STUDENTS, s \in DOMAIN SUBJECTS :
             {x \in DOMAIN SUBJECTS : <<st, x>> \in DOMAIN MARKS} = {s} =>
                 LET sgpa == compute_sgpa(st, SUBJECTS[s].semester)
                     cgpa == compute_cgpa(st)
                 IN  /\ sgpa # Unavailable /\ cgpa # Unavailable
                     /\ sgpa[2] > 0 /\ sgpa[1] * 10 = MARKS[<<st, s>>] * sgpa[2]
                     /\ cgpa[2] > 0 /\ cgpa[1] * 10 = MARKS[<<st, s>>] * cgpa[2])
    /\ [][SUBJECTS' # SUBJECTS =>
             \A st \in DOMAIN STUDENTS, s \in DOMAIN SUBJECTS :
                 (/\ {x \in DOMAIN SUBJECTS : <<st, x>> \in DOMAIN MARKS} = {s}
                  /\ delete_subject(s)) =>
                     /\ SgpaOf(SUBJECTS', MARKS', st, SUBJECTS[s].semester) = Unavailable
                     /\ CgpaOf(SUBJECTS', MARKS', st) = Unavailable]_vars

\* The admin is logged in, and a student's only mark, of 50, is in the only
\* subject of its semester: the delete of that subject is the next request.
OnlyMarkBeforeSubjectDeleted ==
    /\ login_required("admin") = "ok"
    /\ Size(MARKS) = 1 /\ Size(SUBJECTS) = 2
    /\ \E st \in DOMAIN STUDENTS, s \in DOMAIN SUBJECTS :
          /\ <<st, s>> \in DOMAIN MARKS /\ MARKS[<<st, s>>] = 50
          /\ compute_sgpa(st, SUBJECTS[s].semester) = compute_cgpa(st)
          /\ \A x \in DOMAIN SUBJECTS \ {s} : SUBJECTS[x].semester # SUBJECTS[s].semester

\* C23: every subject has a code and a title that are not empty and carry no
\* blanks at the ends, credits >= 1 and semester >= 1; the sum of credits
\* that compute_sgpa and compute_cgpa divide by is 0 only when they select no
\* subject; and no step that changes SUBJECTS is an add_subject whose code or
\* title is empty after trimming or whose credits or semester is no positive
\* integer.
SubjectsWellFormed ==
    /\ [](\A s \in DOMAIN SUBJECTS :
             /\ SUBJECTS[s].code # None /\ Strip(SUBJECTS[s].code) = SUBJECTS[s].code
             /\ SUBJECTS[s].title # None /\ Strip(SUBJECTS[s].title) = SUBJECTS[s].title
             /\ SUBJECTS[s].credits >= 1
             /\ SUBJECTS[s].semester >= 1)
    /\ [](\A st \in DOMAIN STUDENTS :
             LET marked == {s \in DOMAIN SUBJECTS : <<st, s>> \in DOMAIN MARKS}
             IN  /\ TotalUpTo([s \in marked |-> SUBJECTS[s].credits], nextUid) = 0
                        <=> marked = {}
                 /\ \A sem \in Semesters :
                       LET sel == {s \in marked : SUBJECTS[s].semester = sem}
                       IN  TotalUpTo([s \in sel |-> SUBJECTS[s].credits], nextUid) = 0
                               <=> sel = {})
    /\ [][SUBJECTS' # SUBJECTS =>
             \A f \in SubjectForms :
                 (\/ Strip(f[1]) = None \/ Strip(f[2]) = None
                  \/ ~Parses(f[3]) \/ ~Parses(f[4])
                  \/ NumberOf[f[3]] < 1 \/ NumberOf[f[4]] < 1)
                     => ~add_subject(f[1], f[2], f[3], f[4])]_vars

\* The admin is logged in and two subjects are on record, one of them with a
\* mark of a student: the forms with a blank code, with credits 0 and with a
\* semester that is no number are the ones turned down here.
TwoSubjectsOneMarked ==
    /\ login_required("admin") = "ok"
    /\ Size(SUBJECTS) = 2 /\ Size(MARKS) = 1 /\ Size(STUDENTS) = 1
    /\ \E s \in DOMAIN SUBJECTS : SUBJECTS[s].credits = 2

\* C25: no step that changes USERS, STUDENTS, SUBJECTS, MARKS or ATT is a
\* signup, add_subject, enter_marks or enter_attendance whose input has a
\* missing field, a duplicate email or code, a number that does not parse or
\* is out of the accepted range, or a student or subject that is not on
\* record; in particular no enter_marks with an unparsable mark changes MARKS.
ValidateThenCommit ==
    [][stores' # stores =>
          /\ \A email \in Emails, password \in SignupPasswords, roll \in Rolls :
                (email = None \/ password = None \/ roll = None \/ email \in DOMAIN USERS)
                    => ~signup(email, password, roll)
          /\ \A f \in SubjectForms :
                (\/ Strip(f[1]) = None \/ Strip(f[2]) = None
                 \/ ~Parses(f[3]) \/ ~Parses(f[4])
                 \/ NumberOf[f[3]] <= 0 \/ NumberOf[f[4]] <= 0
                 \/ \E x \in DOMAIN SUBJECTS : Lower(SUBJECTS[x].code) = Lower(Strip(f[1])))
                    => ~add_subject(f[1], f[2], f[3], f[4])
          /\ \A st \in FormIds, sub \in FormIds, m \in MarkForms :
                (~Parses(m) \/ st \notin DOMAIN STUDENTS \/ sub \notin DOMAIN SUBJECTS)
                    => ~enter_marks(st, sub, m)
          /\ \A st \in FormIds, sub \in FormIds, f \in AttendanceForms :
                (\/ ~Parses(f[1]) \/ ~Parses(f[2])
                 \/ NumberOf[f[1]] < 0 \/ NumberOf[f[2]] <= 0
                 \/ NumberOf[f[1]] > NumberOf[f[2]]
                 \/ st \notin DOMAIN STUDENTS \/ sub \notin DOMAIN SUBJECTS)
                    => ~enter_attendance(st, sub, f[1], f[2])]_vars

\* A logged-in user, a student with a mark and an attendance row in one
\* subject, and an id whose subject was deleted: a duplicate signup, a form
\* with a number that does not parse and a write for the deleted subject are
\* the requests turned down here, with rows on record to lose.
RowsOnRecordBesideDeletedSubject ==
    /\ login_required(None) = "ok"
    /\ \E st \in DOMAIN STUDENTS, s \in DOMAIN SUBJECTS :
          <<st, s>> \in DOMAIN MARKS /\ <<st, s>> \in DOMAIN ATT
    /\ nextUid = MaxUid /\ Size(SUBJECTS) = 1 /\ Size(STUDENTS) = 1 /\ Size(USERS) = 2

\* C26: a GET / step, which runs ensure_default_admin, keeps every user
\* that was in USERS before it, with the same id, email, role and password
\* hash.
BootstrapOnlyInserts ==
    [][index => \A e \in DOMAIN USERS : e \in DOMAIN USERS' /\ USERS'[e] = USERS[e]]_vars

\* The session is accepted by the admin role check of add_subject,
\* delete_subject and delete_student.
AdminAccepted == login_required("admin") = "ok"

\* C27: a session that the admin role check does not accept becomes one that
\* it accepts only by a login step with the email and the password of a
\* user whose role is admin.
NoRoleEscalation ==
    [][(~AdminAccepted /\ AdminAccepted') =>
          \E email \in Emails, password \in LoginPasswords :
             /\ login(email, password)
             /\ email \in DOMAIN USERS
             /\ USERS[email].role = "admin"
             /\ verify_password(password, USERS[email].password_hash)]_vars

\* C28: in a state that has a user with role admin, ensure_default_admin
\* returns USERS as it found it and a GET / step changes no store and issues
\* no id; in every state, calling it twice leaves what calling it once
\* leaves; and USERS never holds more than one user with role admin.
BootstrapIdempotent ==
    /\ []((\E e \in DOMAIN USERS : USERS[e].role = "admin") =>
             \A salt \in Salts : ensure_default_admin(USERS, nextUid + 1, salt) = USERS)
    /\ [](\A salt1, salt2 \in Salts :
             LET once == ensure_default_admin(USERS, nextUid + 1, salt1)
             IN  ensure_default_admin(once, nextUid + 2, salt2) = once)
    /\ [](Cardinality({e \in DOMAIN USERS : USERS[e].role = "admin"}) <= 1)
    /\ [][((\E e \in DOMAIN USERS : USERS[e].role = "admin") /\ index) =>
             UNCHANGED <<stores, nextUid>>]_vars

\* The default admin is on record beside a student who signed up, and nobody
\* is logged in: the next GET / calls ensure_default_admin with an admin
\* present.
AdminBesideStudentLoggedOut ==
    /\ \E e \in DOMAIN USERS : USERS[e].role = "admin"
    /\ \E e \in DOMAIN USERS : USERS[e].role = "student"
    /\ Size(STUDENTS) = 1
    /\ nextUid = 3
    /\ session = None

(***************************************************************************)
(* Properties of SpecGrades.                                               *)
(***************************************************************************)
\* C11: a finished report of a student shows, for each semester with a
\* non-empty set S of subjects having a mark of the student, the value that
\* compute_sgpa returned, and that value * 10 * (sum of credits over S) is
\* the sum of mark * credits over S.
SgpaIsWeightedMean ==
    (rpc = "done" /\ robs.found) =>
        \A sem \in Semesters :
            LET S == {s \in DOMAIN SUBJECTS :
                         SUBJECTS[s].semester = sem /\ <<rreq, s>> \in DOMAIN MARKS}
                credits == TotalUpTo([s \in S |-> SUBJECTS[s].credits], nextUid)
                weighted ==
                    TotalUpTo([s \in S |-> MARKS[<<rreq, s>>] * SUBJECTS[s].credits], nextUid)
            IN  S # {} =>
                    /\ sem \in DOMAIN robs.sgpa
                    /\ robs.sgpa[sem] = compute_sgpa(rreq, sem)
                    /\ robs.sgpa[sem] # Unavailable
                    /\ robs.sgpa[sem][2] > 0
                    /\ robs.sgpa[sem][1] * 10 * credits = weighted * robs.sgpa[sem][2]

\* The report of a student with mark 80 in a subject of 4 credits and mark 50
\* in one of 2 credits of the same semester, and a mark in another semester:
\* the semester's SGPA is 7.
SgpaOfExampleIsSeven ==
    /\ rpc = "done" /\ robs.found
    /\ \E a, b, c \in DOMAIN SUBJECTS :
          /\ SUBJECTS[a].credits = 4 /\ <<rreq, a>> \in DOMAIN MARKS /\ MARKS[<<rreq, a>>] = 80
          /\ SUBJECTS[b].credits = 2 /\ <<rreq, b>> \in DOMAIN MARKS /\ MARKS[<<rreq, b>>] = 50
          /\ SUBJECTS[a].semester = SUBJECTS[b].semester
          /\ SUBJECTS[c].semester # SUBJECTS[a].semester /\ <<rreq, c>> \in DOMAIN MARKS
          /\ Size(SUBJECTS) = 3
          /\ robs.sgpa[SUBJECTS[a].semester][1] = 7 * robs.sgpa[SUBJECTS[a].semester][2]

\* C12: the CGPA of a finished report is what compute_cgpa returned.  It is
\* available exactly when the student has a mark; then CGPA * 10 * (sum of
\* credits) is the sum of mark * credits over all the subjects with a mark;
\* compute_cgpa gives the same for every other assignment of the subjects to
\* semesters; and it is compute_sgpa of semester k when all the subjects
\* with a mark are of semester k.
CgpaIsWeightedMeanOverAll ==
    (rpc = "done" /\ robs.found) =>
        LET S == {s \in DOMAIN SUBJECTS : <<rreq, s>> \in DOMAIN MARKS}
            credits == TotalUpTo([s \in S |-> SUBJECTS[s].credits], nextUid)
            weighted ==
                TotalUpTo([s \in S |-> MARKS[<<rreq, s>>] * SUBJECTS[s].credits], nextUid)
        IN  /\ robs.cgpa = compute_cgpa(rreq)
            /\ robs.cgpa # Unavailable <=> S # {}
            /\ S # {} =>
                   /\ robs.cgpa[2] > 0
                   /\ robs.cgpa[1] * 10 * credits = weighted * robs.cgpa[2]
            /\ \A sm \in [DOMAIN SUBJECTS -> Semesters] :
                   SameValue(CgpaOf([s \in DOMAIN SUBJECTS |->
                                        [SUBJECTS[s] EXCEPT !.semester = sm[s]]], MARKS, rreq),
                             robs.cgpa)
            /\ \A k \in Semesters :
                   (\A s \in S : SUBJECTS[s].semester = k) =>
                       SameValue(robs.cgpa, compute_sgpa(rreq, k))

\* The report of a student with marks in two semesters, one of them 0, and
\* a subject without a mark: the CGPA is there, and is neither SGPA.
CgpaOverTwoSemesters ==
    /\ rpc = "done" /\ robs.found /\ robs.cgpa # Unavailable
    /\ \E a, b, c \in DOMAIN SUBJECTS :
          /\ SUBJECTS[a].semester # SUBJECTS[b].semester
          /\ <<rreq, a>> \in DOMAIN MARKS /\ MARKS[<<rreq, a>>] = 0
          /\ <<rreq, b>> \in DOMAIN MARKS /\ MARKS[<<rreq, b>>] = 80
          /\ <<rreq, c>> \notin DOMAIN MARKS
          /\ ~SameValue(robs.cgpa, robs.sgpa[SUBJECTS[a].semester])
          /\ ~SameValue(robs.cgpa, robs.sgpa[SUBJECTS[b].semester])

(***************************************************************************)
(* Properties of SpecConc.                                                 *)
(***************************************************************************)
\* C8: when the delete and the write have both finished, no row of MARKS or
\* ATT names a student or a subject that is gone.
NoRowOfDeletedAfterRace ==
    (dpc = "done" /\ wpc = "done") => ReferentialIntegrity

\* C24: at every step of a delete that runs beside no write, every row of
\* MARKS and of ATT names a subject in SUBJECTS and a student in STUDENTS:
\* the rows go before the record they belong to.
RowsGoBeforeParent ==
    wpc = "idle" => ReferentialIntegrity

\* What view_student(sid) shows when it reads all of its data from one state
\* of the stores.
Report(students, subjects, marks, att, sid) ==
    IF sid \notin DOMAIN students THEN NoObs
    ELSE [found |-> TRUE,
          rows |-> [s \in DOMAIN subjects |->
                       [semester |-> subjects[s].semester,
                        marks |-> IF <<sid, s>> \in DOMAIN marks THEN {marks[<<sid, s>>]} ELSE {},
                        att |-> IF <<sid, s>> \in DOMAIN att THEN {att[<<sid, s>>]} ELSE {}]],
          sgpa |-> [sem \in {subjects[s].semester : s \in DOMAIN subjects} |->
                       SgpaOf(subjects, marks, sid, sem)],
          cgpa |-> CgpaOf(subjects, marks, sid)]

\* The report on the stores as they were before the delete started.
ReportBefore(sid) == Report(PopStudents, PopSubjects, PopMarks, PopAtt, sid)

\* The report on the stores as the finished delete leaves them.
ReportAfter(sid) ==
    IF dreq.op = "delete_subject"
    THEN Report(PopStudents, Pop(PopSubjects, {dreq.sid}),
                Pop(PopMarks, {k \in DOMAIN PopMarks : k[2] = dreq.sid}),
                Pop(PopAtt, {k \in DOMAIN PopAtt : k[2] = dreq.sid}), sid)
    ELSE Report(Pop(PopStudents, {dreq.sid}), PopSubjects,
                Pop(PopMarks, {k \in DOMAIN PopMarks : k[1] = dreq.sid}),
                Pop(PopAtt, {k \in DOMAIN PopAtt : k[1] = dreq.sid}), sid)

\* C9: a report that ran beside a delete, and beside nothing else, shows the
\* stores as they were before the delete or as they are after it.
ReportIsSnapshot ==
    (rpc = "done" /\ dreq.op # "none" /\ wpc = "idle") =>
        robs = ReportBefore(rreq) \/ robs = ReportAfter(rreq)

====
